---- MODULE Spec2Model ----
(***************************************************************************)
(* Invoice backend: the /api/extract handler, the normalization pipeline   *)
(* (sanitizers, pattern extractors, vendor rules, quantity corrector) and  *)
(* the total reconciliation with its single corrective round trip.         *)
(*                                                                         *)
(* Numbers.  Money is an integer number of thousandths (1.00 is 1000);     *)
(* quantities and unit counts are plain integers.  NaN and null are two    *)
(* distinguished values, and so is Tiny, the number 0.0000001 (below the   *)
(* resolution of the thousandths, and printed by String as "1e-7").        *)
(* Strings are sequences of one-character strings, so that the character   *)
(* replacement, stripping and parsing the code does are computed rather    *)
(* than assumed.                                                           *)
(***************************************************************************)
EXTENDS Integers, Sequences, FiniteSets, TLC

(***************************************************************************)
(* JavaScript values as they come out of JSON.parse.                       *)
(*   t: "undef" | "null" | "num" | "str" | "bool" | "obj" | "arr"          *)
(*   n: the number in thousandths (t = "num"), 1/0 for a boolean           *)
(*   s: the characters (t = "str"), the elements (t = "arr")               *)
(***************************************************************************)
NaN == -999999999
Null == -999999998
Tiny == -999999997

Undef == [t |-> "undef", n |-> 0, s |-> <<>>]
JNull == [t |-> "null", n |-> 0, s |-> <<>>]
Num(m) == [t |-> "num", n |-> m, s |-> <<>>]
Str(chars) == [t |-> "str", n |-> 0, s |-> chars]
Bool(b) == [t |-> "bool", n |-> IF b THEN 1 ELSE 0, s |-> <<>>]
Obj == [t |-> "obj", n |-> 0, s |-> <<>>]
Arr(elems) == [t |-> "arr", n |-> 0, s |-> elems]

IsNaN(x) == x = NaN
IsNumber(x) == x # NaN /\ x # Null

\* JavaScript truthiness, as used by `v || fallback` and `!v`.
Truthy(v) ==
  CASE v.t = "undef" -> FALSE
    [] v.t = "null" -> FALSE
    [] v.t = "num" -> v.n # 0 /\ v.n # NaN
    [] v.t = "str" -> Len(v.s) > 0
    [] v.t = "bool" -> v.n = 1
    [] OTHER -> TRUE

(***************************************************************************)
(* Characters and strings.                                                 *)
(***************************************************************************)
DigitSeq == <<"0", "1", "2", "3", "4", "5", "6", "7", "8", "9">>
Digits == {DigitSeq[i] : i \in 1..10}
DigitVal(c) == (CHOOSE i \in 1..10 : DigitSeq[i] = c) - 1

LowerSeq == <<"a","b","c","d","e","f","g","h","i","j","k","l","m",
              "n","o","p","q","r","s","t","u","v","w","x","y","z">>
UpperSeq == <<"A","B","C","D","E","F","G","H","I","J","K","L","M",
              "N","O","P","Q","R","S","T","U","V","W","X","Y","Z">>
Lowers == {LowerSeq[i] : i \in 1..26}
Uppers == {UpperSeq[i] : i \in 1..26}

UpperChar(c) == IF c \in Lowers THEN UpperSeq[CHOOSE i \in 1..26 : LowerSeq[i] = c] ELSE c

\* String.prototype.toUpperCase
toUpperCase(s) == [i \in 1..Len(s) |-> UpperChar(s[i])]

\* s.replace(/[^...]/g, ""): keep the characters of `keep`
KeepChars(s, keep) == SelectSeq(s, LAMBDA c : c \in keep)

\* .replace(/[Oo]/g, "0").replace(/[lI]/g, "1")
FixOcr(s) ==
  [i \in 1..Len(s) |-> IF s[i] \in {"O", "o"} THEN "0"
                       ELSE IF s[i] \in {"l", "I"} THEN "1" ELSE s[i]]

\* The longest prefix of s made of digits.
RECURSIVE DigitPrefixLen(_)
DigitPrefixLen(s) ==
  IF Len(s) = 0 \/ s[1] \notin Digits THEN 0 ELSE 1 + DigitPrefixLen(Tail(s))

\* The value of a sequence of digits (0 for the empty sequence).
RECURSIVE DigitsValue(_)
DigitsValue(s) ==
  IF Len(s) = 0 THEN 0
  ELSE 10 * DigitsValue(SubSeq(s, 1, Len(s) - 1)) + DigitVal(s[Len(s)])

Drop(s, k) == SubSeq(s, k + 1, Len(s))
Take(s, k) == SubSeq(s, 1, IF k < Len(s) THEN k ELSE Len(s))

\* The characters of s without its trailing zeros.
RECURSIVE TrimZeros(_)
TrimZeros(s) ==
  IF Len(s) > 0 /\ s[Len(s)] = "0" THEN TrimZeros(SubSeq(s, 1, Len(s) - 1)) ELSE s

\* An integer part ip and the characters f after the ".": NaN when neither
\* holds a digit, else the value in thousandths (fraction digits after the
\* third are dropped, except that 0.0000001 is Tiny).
withFraction(ip, f) ==
  IF Len(ip) + DigitPrefixLen(f) = 0 THEN NaN
  ELSE IF DigitsValue(ip) = 0
          /\ TrimZeros(Take(f, DigitPrefixLen(f))) = <<"0", "0", "0", "0", "0", "0", "1">>
       THEN Tiny
  ELSE 1000 * DigitsValue(ip)
       + DigitsValue(Take(Take(f, DigitPrefixLen(f)) \o <<"0", "0", "0">>, 3))

\* The unsigned number at the head of body, whose first il characters are digits.
floatParts(body, il) ==
  IF il < Len(body) /\ body[il + 1] = "." THEN withFraction(Take(body, il), Drop(body, il + 1))
  ELSE IF il = 0 THEN NaN
  ELSE 1000 * DigitsValue(Take(body, il))

negative(n) == IF n = NaN THEN NaN ELSE IF n = Tiny THEN 0 ELSE 0 - n

\* parseFloat on a string of digits, "." and "-": an optional sign, digits, an
\* optional fraction; parsing stops at the first character that does not fit.
parseFloat(s) ==
  IF Len(s) > 0 /\ s[1] = "-" THEN negative(floatParts(Tail(s), DigitPrefixLen(Tail(s))))
  ELSE floatParts(s, DigitPrefixLen(s))

\* The integer at the head of body, whose first il characters are digits.
intParts(body, il) == IF il = 0 THEN NaN ELSE DigitsValue(Take(body, il))

\* parseInt(s, 10) on a string of digits and "-".
parseInt(s) ==
  IF Len(s) > 0 /\ s[1] = "-" THEN negative(intParts(Tail(s), DigitPrefixLen(Tail(s))))
  ELSE intParts(s, DigitPrefixLen(s))

\* The decimal digits of a natural number.
RECURSIVE NatToString(_)
NatToString(k) ==
  IF k < 10 THEN <<DigitSeq[k + 1]>>
  ELSE NatToString(k \div 10) \o <<DigitSeq[(k % 10) + 1]>>

\* The three fraction digits of fp thousandths, trailing zeros removed.
fractionDigits(fp) ==
  TrimZeros(<<DigitSeq[(fp \div 100) + 1], DigitSeq[((fp \div 10) % 10) + 1],
              DigitSeq[(fp % 10) + 1]>>)

\* The digits of a non-negative number of thousandths.
magnitudeToString(a) ==
  NatToString(a \div 1000) \o (IF a % 1000 = 0 THEN <<>> ELSE <<".">> \o fractionDigits(a % 1000))

\* String(number) for a number held in thousandths: "3", "2.5", "-0.004", "NaN";
\* a number below 0.000001 is printed in exponent notation.
NumberToString(m) ==
  IF m = NaN THEN <<"N", "a", "N">>
  ELSE IF m = Tiny THEN <<"1", "e", "-", "7">>
  ELSE IF m < 0 THEN <<"-">> \o magnitudeToString(0 - m)
  ELSE magnitudeToString(m)

\* String(v) for a JSON value.
String(v) ==
  CASE v.t = "num" -> NumberToString(v.n)
    [] v.t = "str" -> v.s
    [] v.t = "bool" -> IF v.n = 1 THEN <<"t", "r", "u", "e">>
                       ELSE <<"f", "a", "l", "s", "e">>
    [] v.t = "null" -> <<"n", "u", "l", "l">>
    [] v.t = "undef" -> <<"u", "n", "d", "e", "f", "i", "n", "e", "d">>
    [] v.t = "arr" -> <<>>
    [] OTHER -> <<"[", "o", "b", "j", "e", "c", "t", " ", "O", "b", "j", "e", "c", "t", "]">>

(***************************************************************************)
(* Sanitizers.                                                             *)
(***************************************************************************)
MoneyChars == Digits \cup {".", "-"}
IntChars == Digits \cup {"-"}

orFallback(n, fallback) == IF IsNaN(n) THEN fallback ELSE n

\* The cleaned string s of safeMoney to a number, or the fallback.
moneyOf(s, fallback) ==
  IF s \in {<<>>, <<".">>, <<"-">>, <<"-", ".">>} THEN fallback
  ELSE orFallback(parseFloat(s), fallback)

safeMoney(v, fallback) ==
  IF v.t \in {"null", "undef"} THEN fallback
  ELSE moneyOf(KeepChars(FixOcr(String(v)), MoneyChars), fallback)

\* The cleaned string s of safeIntPreserveZero to an integer, or the fallback.
intOf(s, fallback) ==
  IF s = <<>> THEN fallback ELSE orFallback(parseInt(s), fallback)

safeIntPreserveZero(v, fallback) ==
  IF v.t \in {"null", "undef"} THEN fallback
  ELSE intOf(KeepChars(FixOcr(String(v)), IntChars), fallback)

(***************************************************************************)
(* Vendor key, rounding, total comparison.                                 *)
(***************************************************************************)
AlphaNum == Digits \cup Lowers \cup Uppers

\* String(vendorName || "") with the non-alphanumerics removed, upper-cased.
normalizeVendorKey(vendorName) ==
  toUpperCase(KeepChars(IF Truthy(vendorName) THEN String(vendorName) ELSE <<>>, AlphaNum))

\* Math.round((n + Number.EPSILON) * 100) / 100: to the nearest hundredth, a
\* half going up.  (n in thousandths, the result a multiple of 10.)
round2(n) == IF n = Tiny THEN 0 ELSE ((n + 5) \div 10) * 10

Abs(x) == IF x < 0 THEN 0 - x ELSE x

\* The subtraction of totalsMatch is done on binary doubles.  For two amounts
\* of two decimals that are exactly 0.05 apart the computed difference is
\* either 0.05 or the next double above it, depending on the amounts: the set
\* holds the lower amount, in hundredths, of the pairs for which it is above
\* (0.15 and 0.20, 1.00 and 1.05, ...), for lower amounts from -0.04 to 1.32.
AboveToleranceAt ==
  {9, 12, 15, 18, 29, 35, 41} \cup (21..23) \cup (47..51) \cup (57..63)
    \cup (69..76) \cup (82..88) \cup (94..107) \cup (113..132)

\* The place in AboveToleranceAt of a pair whose lower amount is lo
\* thousandths (a pair of negative amounts is the mirror of a positive pair).
toleranceKey(lo) == IF lo <= -50 THEN (0 - lo - 50) \div 10 ELSE lo \div 10

\* Math.abs(a - b) <= 0.05 for two amounts of two decimals (in thousandths).
DoubleDiffWithinTolerance(a, b) ==
  IF Abs(a - b) # 50 THEN Abs(a - b) < 50
  ELSE toleranceKey(IF a < b THEN a ELSE b) \notin AboveToleranceAt

totalsMatch(computed, printed) ==
  IF printed = Null \/ IsNaN(printed) THEN FALSE
  ELSE DoubleDiffWithinTolerance(round2(computed), round2(printed))

(***************************************************************************)
(* Pattern extractors.                                                     *)
(***************************************************************************)
Min(S) == CHOOSE x \in S : \A y \in S : x <= y

\* "CS" followed by six digits starts at position i of s.
CaseCodeAt(s, i) ==
  /\ i + 7 <= Len(s)
  /\ s[i] = "C" /\ s[i + 1] = "S"
  /\ \A k \in 2..7 : s[i + k] \in Digits

\* The six digits after the first "CS" of s that six digits follow, as an
\* integer; null when there is none.
caseCodeOf(s, at) ==
  IF at = {} THEN Null ELSE DigitsValue(SubSeq(s, Min(at) + 2, Min(at) + 7))

\* String(rawLine).match(/CS(\d{6})/)
caseCodeMatch(s) == caseCodeOf(s, {i \in 1..Len(s) : CaseCodeAt(s, i)})

\* extractMasterCase: null for a falsy rawLine or when /CS(\d{6})/ does not match.
extractMasterCase(rawLine) ==
  IF ~Truthy(rawLine) THEN Null ELSE caseCodeMatch(String(rawLine))

Whitespace == {" "}

\* The first position at or after i of s that holds no whitespace.
RECURSIVE SkipSpaces(_, _)
SkipSpaces(s, i) ==
  IF i <= Len(s) /\ s[i] \in Whitespace THEN SkipSpaces(s, i + 1) ELSE i

\* The run of digits that starts at i of s ends at RunEnd(s, i).
RunEnd(s, i) == i + DigitPrefixLen(Drop(s, i - 1)) - 1

\* A digit follows the "/" at position j of s, whitespace skipped.
SlashThenDigit(s, j) ==
  /\ j <= Len(s) /\ s[j] = "/"
  /\ SkipSpaces(s, j + 1) <= Len(s)
  /\ s[SkipSpaces(s, j + 1)] \in Digits

\* /(\d+)\s*\/\s*(\d+)/ matches s from position i on.
SlashAt(s, i) ==
  s[i] \in Digits /\ SlashThenDigit(s, SkipSpaces(s, RunEnd(s, i) + 1))

\* The first group of the leftmost match, as an integer; null without a match.
slashGroup(desc, at) ==
  IF at = {} THEN Null ELSE DigitsValue(SubSeq(desc, Min(at), RunEnd(desc, Min(at))))

\* desc.match(/(\d+)\s*\/\s*(\d+)/)
slashMatch(desc) == slashGroup(desc, {i \in 1..Len(desc) : SlashAt(desc, i)})

\* String.prototype.includes
includes(s, sub) ==
  \E i \in 1..Len(s) : i + Len(sub) - 1 <= Len(s) /\ SubSeq(s, i, i + Len(sub) - 1) = sub

(***************************************************************************)
(* Quantity corrector and units-per-case validation.                       *)
(***************************************************************************)
\* Math.round(a / c) for c > 0: the nearest integer, a half going up.
RoundDiv(a, c) == (2 * a + c) \div (2 * c)

Max(a, b) == IF a > b THEN a ELSE b

\* Lines 167-172: the inferred quantity when it is in range and
\* |expectedAmt - amt| <= max(0.05, expectedAmt * 0.01), else the extracted one.
acceptInferred(qtyOrdered, cost, amt, inferred) ==
  IF /\ inferred >= 0 /\ inferred <= 9999
     /\ 100 * Abs(inferred * cost - amt) <= Max(5000, inferred * cost)
  THEN inferred
  ELSE qtyOrdered

\* Lines 163-175, on the sanitized cost and amount.
correctQty(qtyOrdered, cost, amt) ==
  IF ~IsNaN(amt) /\ Abs(amt) < 5 THEN 0
  ELSE IF ~IsNaN(amt) /\ ~IsNaN(cost) /\ cost > 0
    THEN acceptInferred(qtyOrdered, cost, amt, RoundDiv(amt, cost))
  ELSE qtyOrdered

correctQtyUsingAmount(qtyOrdered, netCost, lineAmount) ==
  correctQty(qtyOrdered, safeMoney(Num(netCost), NaN), safeMoney(Num(lineAmount), NaN))

\* A validation without the sanity cap of 200.
validateUnitsPerCaseUncapped(units) ==
  IF units = 0 \/ units = NaN \/ units = Null THEN FALSE
  ELSE IF units <= 0 THEN FALSE
  ELSE TRUE

validateUnitsPerCase(units) ==
  IF units = 0 \/ units = NaN \/ units = Null THEN FALSE
  ELSE IF units <= 0 THEN FALSE
  ELSE IF units > 200 THEN FALSE
  ELSE TRUE

(***************************************************************************)
(* Vendor rule engine.                                                     *)
(***************************************************************************)
\* A raw line item as the collaborator gives it; obj is FALSE for an element
\* of items that is not an object (its fields are then all undefined).
EmptyItem ==
  [obj |-> TRUE, upc |-> Undef, description |-> Undef, sku |-> Undef,
   netCost |-> Undef, lineAmount |-> Undef, qtyOrdered |-> Undef,
   rawLine |-> Undef, unitsPerCase |-> Undef]

normalizeUPC(item) ==
  Take(KeepChars(IF Truthy(item.upc) THEN String(item.upc) ELSE <<>>, Digits), 11)

normalizeSKU(item) ==
  KeepChars(IF Truthy(item.sku) THEN String(item.sku) ELSE <<>>, Digits)

normalizeQty(item) == safeIntPreserveZero(item.qtyOrdered, 0)

normalizeNetCost(item) == safeMoney(item.netCost, 0)

normalizeLineAmount(item) == safeMoney(item.lineAmount, NaN)

validOrOne(u) == IF validateUnitsPerCase(u) THEN u ELSE 1

\* vendorRules.DEFAULT.normalizeUnitsPerCase
DefaultUnitsPerCase(item) == validOrOne(safeIntPreserveZero(item.unitsPerCase, 0))

\* extractMasterCase(rawLine) ?? 1
orOne(cs) == IF cs = Null THEN 1 ELSE cs

\* A resolver that trusts the CS value before it looks for an X/Y fraction.
beverageUnitsCaseCodeFirst(desc, csValue, x) ==
  IF csValue # 0 /\ csValue > 1 THEN validOrOne(csValue)
  ELSE IF x # Null THEN validOrOne(x)
  ELSE IF includes(desc, <<"6", "P", "K">>) /\ csValue = 1 THEN 4
  ELSE IF includes(desc, <<"1", "2", "P", "K">>) /\ csValue = 1 THEN 2
  ELSE 1

\* Lines 220-237, on the upper-cased description, the CS value and the first
\* group x of the X/Y match (null without a match).
beverageUnits(desc, csValue, x) ==
  IF x # Null THEN validOrOne(x)
  ELSE IF csValue # 0 /\ csValue > 1 THEN validOrOne(csValue)
  ELSE IF includes(desc, <<"6", "P", "K">>) /\ csValue = 1 THEN 4
  ELSE IF includes(desc, <<"1", "2", "P", "K">>) /\ csValue = 1 THEN 2
  ELSE 1

upperDescription(item) ==
  IF Truthy(item.description) THEN toUpperCase(String(item.description)) ELSE <<>>

rawLineString(item) == IF Truthy(item.rawLine) THEN String(item.rawLine) ELSE <<>>

\* vendorRules.BEVERAGE_BASE.normalizeUnitsPerCase
BeverageUnitsPerCase(item) ==
  beverageUnits(upperDescription(item),
                orOne(extractMasterCase(Str(rawLineString(item)))),
                slashMatch(upperDescription(item)))

KeyDefault == <<"D", "E", "F", "A", "U", "L", "T">>
KeyBeverageBase == <<"B", "E", "V", "E", "R", "A", "G", "E", "_", "B", "A", "S", "E">>
KeyBonBright == <<"B", "O", "N", "B", "R", "I", "G", "H", "T", "D", "I", "S", "T", "R">>

\* The registry: each entry names its rule set and the units-per-case rule it
\* carries (BONBRIGHTDISTR is a copy of BEVERAGE_BASE).
vendorRules ==
  (KeyDefault :> [name |-> "DEFAULT", units |-> "default"])
    @@ (KeyBeverageBase :> [name |-> "BEVERAGE_BASE", units |-> "beverage"])
    @@ (KeyBonBright :> [name |-> "BONBRIGHTDISTR", units |-> "beverage"])

\* A lookup that falls back to the global default before the category default.
selectRulesDefaultFirst(vendorKey) ==
  IF vendorKey \in DOMAIN vendorRules THEN vendorRules[vendorKey]
  ELSE vendorRules[KeyDefault]

\* vendorRules[vendorKey] || vendorRules.BEVERAGE_BASE || vendorRules.DEFAULT
selectRules(vendorKey) ==
  IF vendorKey \in DOMAIN vendorRules THEN vendorRules[vendorKey]
  ELSE IF KeyBeverageBase \in DOMAIN vendorRules THEN vendorRules[KeyBeverageBase]
  ELSE vendorRules[KeyDefault]

normalizeUnitsPerCase(rules, item) ==
  IF rules.units = "default" THEN DefaultUnitsPerCase(item) ELSE BeverageUnitsPerCase(item)

(***************************************************************************)
(* normalizeParsed: the collaborator's JSON value into the stable output.  *)
(*                                                                         *)
(* A parsed response is a record: top is the kind of the top-level JSON    *)
(* value; for an object, vendorName, invoiceDate, invoiceTotal and         *)
(* warnings are its fields, and items is [isArray, elems].                 *)
(***************************************************************************)
NoItems == [isArray |-> FALSE, elems |-> <<>>]

EmptyParsed ==
  [top |-> "obj", vendorName |-> Undef, invoiceDate |-> Undef,
   invoiceTotal |-> Undef, items |-> NoItems, warnings |-> Undef]

\* netCost * qtyOrdered, the amount a line adds to computedGrandTotal.
lineTotal(netCost, qtyOrdered) == netCost * qtyOrdered

\* margin < 10 || margin > 80 for a unit cost and a retail estimate, with
\* margin = (retail - unit) / retail * 100 when retail > 0, else 0.
marginOutOfRange(unit, retail) ==
  IF retail > 0
  THEN (retail - unit) * 100 < 10 * retail \/ (retail - unit) * 100 > 80 * retail
  ELSE TRUE

\* A variant that estimates retail from the case cost, netCost * 1.35,
\* instead of the unit cost.
marginWarningFromCaseCost(netCost, unitsPerCase) ==
  marginOutOfRange(IF unitsPerCase > 0 THEN 100 * netCost ELSE 0,
                   135 * netCost * unitsPerCase)

\* unitCost = netCost / unitsPerCase (0 when unitsPerCase is not positive) and
\* retailEstimate = unitCost * 1.35, both scaled by 100 * unitsPerCase.
marginWarning(netCost, unitsPerCase) ==
  marginOutOfRange(IF unitsPerCase > 0 THEN 100 * netCost ELSE 0,
                   IF unitsPerCase > 0 THEN 135 * netCost ELSE 0)

\* The warning codes of one line, in the order they are pushed.
lineWarnings(upc, qtyOrdered, qtyCorrected, netCost) ==
  (IF Len(upc) < 11 THEN <<"UPC_MISSING_OR_SHORT">> ELSE <<>>)
    \o (IF qtyOrdered = 0 THEN <<"QTY_ZERO">> ELSE <<>>)
    \o (IF qtyCorrected THEN <<"QTY_CORRECTED_FROM_AMOUNT">> ELSE <<>>)
    \o (IF netCost <= 0 THEN <<"NETCOST_MISSING_OR_ZERO">> ELSE <<>>)

\* The object returned for a line (lines 364-380); total is the line's
\* unrounded lineTotal, which is added to computedGrandTotal and not returned.
lineRecord(it, upc, sku, unitsPerCase, qty, netCost, lineAmount, correctedQty) ==
  [upc |-> it.upc,
   upc11 |-> upc,
   description |-> IF Truthy(it.description) THEN it.description ELSE Str(<<>>),
   sku |-> it.sku,
   skuDigits |-> sku,
   netCost |-> round2(netCost),
   lineAmount |-> IF IsNaN(lineAmount) THEN Null ELSE round2(lineAmount),
   rawLine |-> IF Truthy(it.rawLine) THEN it.rawLine ELSE Str(<<>>),
   masterCaseSize |-> extractMasterCase(it.rawLine),
   unitsPerCase |-> unitsPerCase,
   qtyOrdered |-> correctedQty,
   lineTotal |-> round2(lineTotal(netCost, correctedQty)),
   marginWarning |-> marginWarning(netCost, unitsPerCase),
   warnings |-> lineWarnings(upc, correctedQty, correctedQty # qty, netCost),
   total |-> lineTotal(netCost, correctedQty)]

\* Lines 335-343: the quantity corrector applied to the sanitized fields.
correctedLine(it, upc, sku, unitsPerCase, qty, netCost, lineAmount) ==
  lineRecord(it, upc, sku, unitsPerCase, qty, netCost, lineAmount,
             correctQtyUsingAmount(qty, netCost, lineAmount))

\* Lines 320-333: the fields of an item object `it`, sanitized by the rules.
normalizeObject(rules, it) ==
  correctedLine(it, normalizeUPC(it), normalizeSKU(it),
                validOrOne(normalizeUnitsPerCase(rules, it)),
                normalizeQty(it), normalizeNetCost(it), normalizeLineAmount(it))

\* The body of parsed.items.map: one raw item into one normalized line.
normalizeItem(rules, item) == normalizeObject(rules, IF item.obj THEN item ELSE EmptyItem)

\* The sum of the unrounded line totals (computedGrandTotal).
RECURSIVE computedGrandTotal(_)
computedGrandTotal(lines) ==
  IF Len(lines) = 0 THEN 0
  ELSE computedGrandTotal(SubSeq(lines, 1, Len(lines) - 1)) + lines[Len(lines)].total

\* The fields of a line that are returned.
returnedLine(l) == [f \in (DOMAIN l) \ {"total"} |-> l[f]]

\* Lines 293-385 once the vendor key is known and the lines are normalized.
normalizedInvoice(parsed, vendorName, vendorKey, lines) ==
  [top |-> parsed.top,
   vendorName |-> vendorName,
   vendorKey |-> vendorKey,
   invoiceDate |-> IF Truthy(parsed.invoiceDate) THEN parsed.invoiceDate ELSE JNull,
   invoiceTotal |-> IF parsed.invoiceTotal.t \notin {"undef", "null"}
                    THEN safeMoney(parsed.invoiceTotal, NaN) ELSE Null,
   items |-> [i \in 1..Len(lines) |-> returnedLine(lines[i])],
   grandTotal |-> round2(computedGrandTotal(lines)),
   warnings |-> parsed.warnings]

\* parsed.items.map(...) under the rule set of the vendor key.
normalizeLines(rules, rawItems) ==
  [i \in 1..Len(rawItems) |-> normalizeItem(rules, rawItems[i])]

normalizeWithKey(parsed, vendorName, vendorKey) ==
  normalizedInvoice(parsed, vendorName, vendorKey,
    normalizeLines(selectRules(vendorKey),
                   IF parsed.items.isArray THEN parsed.items.elems ELSE <<>>))

normalizeFields(parsed, vendorName) ==
  normalizeWithKey(parsed, vendorName, normalizeVendorKey(vendorName))

\* An object keeps its fields; an array is an object without them; any other
\* value is replaced by {}.
normalizeParsed(rawParsed) ==
  IF rawParsed.top = "obj"
  THEN normalizeFields(rawParsed,
         IF Truthy(rawParsed.vendorName) THEN rawParsed.vendorName ELSE Str(<<>>))
  ELSE normalizeFields([EmptyParsed EXCEPT !.top = IF rawParsed.top = "arr" THEN "arr" ELSE "obj"],
         Str(<<>>))

(***************************************************************************)
(* The extraction collaborator and the /api/extract handler.               *)
(*                                                                         *)
(* A reply of the collaborator is [http, text, value]: http is "rejected"  *)
(* (fetch throws), "error" (status not ok) or "ok"; text is "empty",       *)
(* "invalid" (not JSON) or "json", and value is then the parsed value.     *)
(***************************************************************************)
Threw == [threw |-> TRUE, value |-> EmptyParsed]
Returned(v) == [threw |-> FALSE, value |-> v]

parseGeminiJSON(reply) ==
  IF reply.text = "empty" THEN Threw
  ELSE IF reply.text = "invalid" THEN Threw
  ELSE Returned(reply.value)

callGeminiForInvoice(reply) ==
  IF reply.http = "rejected" THEN Threw
  ELSE IF reply.http = "error" THEN Threw
  ELSE parseGeminiJSON(reply)

\* The index of the first "," of s at or after i, Len(s) + 1 when there is none.
RECURSIVE CommaFrom(_, _)
CommaFrom(s, i) ==
  IF i > Len(s) \/ s[i] = "," THEN i ELSE CommaFrom(s, i + 1)

DataPrefix == <<"d", "a", "t", "a", ":">>
Base64Suffix == <<";", "b", "a", "s", "e", "6", "4">>
ImageJpeg == <<"i", "m", "a", "g", "e", "/", "j", "p", "e", "g">>

\* String.prototype.trim
RECURSIVE trim(_)
trim(s) ==
  IF Len(s) > 0 /\ s[1] \in Whitespace THEN trim(Tail(s))
  ELSE IF Len(s) > 0 /\ s[Len(s)] \in Whitespace THEN trim(SubSeq(s, 1, Len(s) - 1))
  ELSE s

\* prefix has the shape data:<mime>;base64
dataPrefixed(prefix) ==
  /\ Len(prefix) >= Len(DataPrefix) + 1 + Len(Base64Suffix)
  /\ Take(prefix, Len(DataPrefix)) = DataPrefix
  /\ Drop(prefix, Len(prefix) - Len(Base64Suffix)) = Base64Suffix

mimeTypeOf(prefix) ==
  IF dataPrefixed(prefix)
  THEN trim(SubSeq(prefix, Len(DataPrefix) + 1, Len(prefix) - Len(Base64Suffix)))
  ELSE ImageJpeg

\* The first two pieces of s.split(","), the first comma of s being at c1.
splitDataUrl(s, c1) ==
  [mimeType |-> mimeTypeOf(SubSeq(s, 1, c1 - 1)),
   base64 |-> IF c1 > Len(s) THEN <<>> ELSE SubSeq(s, c1 + 1, CommaFrom(s, c1 + 1) - 1)]

dataUrlString(dataUrl) == IF Truthy(dataUrl) THEN String(dataUrl) ELSE <<>>

parseBase64DataUrl(dataUrl) ==
  splitDataUrl(dataUrlString(dataUrl), CommaFrom(dataUrlString(dataUrl), 1))

\* Array.prototype.push on the value of a warnings field: a TypeError when the
\* value is not an array.
push(w, code) ==
  IF w.t = "arr" THEN Returned(Arr(Append(w.s, code))) ELSE [threw |-> TRUE, value |-> w]

\* res.json(parsed): JSON.stringify keeps the named fields of an object and
\* only the elements of an array; NaN is written as null.
serialize(parsed) ==
  IF parsed.top = "arr" THEN [top |-> "arr"]
  ELSE [parsed EXCEPT !.invoiceTotal = IF IsNaN(@) THEN Null ELSE @]

NoBody == [top |-> "none"]
NoParsed == [top |-> "none"]
NoResponse == [status |-> 0, error |-> "", body |-> NoBody]
json(parsed) == [status |-> 200, error |-> "", body |-> serialize(parsed)]
errorJson(status, message) == [status |-> status, error |-> message, body |-> NoBody]
ServerCrashed == errorJson(500, "Server crashed")

\* Lines 473-477 and 510-514: totalMatches and the warnings array are set.
reconciled(p, printedTotal, match) ==
  [parsed |-> [totalMatches |-> match]
                @@ [p EXCEPT !.warnings = IF Truthy(@) THEN @ ELSE Arr(<<>>)],
   printedTotal |-> printedTotal,
   computedTotal |-> p.grandTotal,
   match |-> match]

matchPrinted(p, printedTotal) ==
  reconciled(p, printedTotal, ~IsNaN(printedTotal) /\ totalsMatch(p.grandTotal, printedTotal))

\* Lines 468-477 and 506-514: the printed total, the match and the warnings
\* array of a normalized pass.
reconcile(p) ==
  matchPrinted(p, IF p.invoiceTotal = Null THEN NaN ELSE safeMoney(Num(p.invoiceTotal), NaN))

InitialRequest == [prompt |-> "initial", printedTotal |-> NaN, computedTotal |-> NaN]

\* buildCorrectionPrompt: the directive carries the printed and the computed total.
buildCorrectionPrompt(printedTotal, computedTotal) ==
  [prompt |-> "correction", printedTotal |-> printedTotal, computedTotal |-> computedTotal]

replaceWarnings(parsed, pushed) ==
  IF pushed.threw THEN ServerCrashed ELSE json([parsed EXCEPT !.warnings = pushed.value])

\* Lines 479-495 on the reconciled first pass a: return it, or retry.
\* retry says a corrective request is made.
decideFirst(a) ==
  IF IsNaN(a.printedTotal)
  THEN [retry |-> FALSE, parsedA |-> a.parsed, request |-> InitialRequest,
        response |-> replaceWarnings(a.parsed, push(a.parsed.warnings, "INVOICE_TOTAL_MISSING"))]
  ELSE IF a.match
  THEN [retry |-> FALSE, parsedA |-> a.parsed, request |-> InitialRequest,
        response |-> json(a.parsed)]
  ELSE [retry |-> TRUE, parsedA |-> a.parsed,
        request |-> buildCorrectionPrompt(a.printedTotal, a.computedTotal),
        response |-> NoResponse]

\* Lines 464-465 on the settled initial call: a throw reaches the outer catch.
afterInitialCall(called) ==
  IF called.threw
  THEN [retry |-> FALSE, parsedA |-> NoParsed, request |-> InitialRequest,
        response |-> ServerCrashed]
  ELSE decideFirst(reconcile(normalizeParsed(called.value)))

\* Pass A, from the collaborator's reply to the first return or to the
\* corrective request (lines 464-501).
firstPass(reply) == afterInitialCall(callGeminiForInvoice(reply))

\* The second push of the catch block.
pushRetryFailed(parsedA, w1) ==
  IF w1.threw THEN ServerCrashed ELSE replaceWarnings(parsedA, push(w1.value, "RETRY_FAILED"))

\* The catch of the retry (lines 521-526): the first pass with two warnings;
\* a throw in the catch block reaches the outer catch.
retryFailed(parsedA) ==
  pushRetryFailed(parsedA, push(parsedA.warnings, "TOTAL_MISMATCH_NEEDS_REVIEW"))

\* Line 516-520: the reconciled second pass is returned, with a warning when
\* it does not match; a throw of the push reaches the catch of the retry.
pushReview(b, review, parsedA) ==
  IF review.threw THEN retryFailed(parsedA) ELSE json([b EXCEPT !.warnings = review.value])

\* A second pass that marks the first pass as matching and returns it.
decideSecondReturningFirst(b, parsedA) ==
  IF b.match THEN json([parsedA EXCEPT !.totalMatches = TRUE])
  ELSE pushReview(b.parsed, push(b.parsed.warnings, "TOTAL_MISMATCH_NEEDS_REVIEW"), parsedA)

decideSecond(b, parsedA) ==
  IF b.match THEN json(b.parsed)
  ELSE pushReview(b.parsed, push(b.parsed.warnings, "TOTAL_MISMATCH_NEEDS_REVIEW"), parsedA)

\* Lines 497-526 on the settled corrective call.
afterCorrectiveCall(called, parsedA) ==
  IF called.threw THEN retryFailed(parsedA)
  ELSE decideSecond(reconcile(normalizeParsed(called.value)), parsedA)

\* A second pass that asks the collaborator again when the corrective call fails.
secondPassRetrying(reply, parsedA) ==
  [again |-> callGeminiForInvoice(reply).threw,
   response |-> afterCorrectiveCall(callGeminiForInvoice(reply), parsedA)]

\* Pass B, from the collaborator's reply to the return (lines 497-526).
\* again says another corrective request is made: the code has no such path.
secondPass(reply, parsedA) ==
  [again |-> FALSE,
   response |-> afterCorrectiveCall(callGeminiForInvoice(reply), parsedA)]

(***************************************************************************)
(* The inputs the model draws: request bodies and collaborator replies.    *)
(***************************************************************************)
MaxItems == 2

SeqsUpTo(S, n) == UNION {[1..k -> S] : k \in 0..n}

Requests ==
  {Undef,
   Str(<<"a", "b", "c">>),
   Str(<<",", "Q", "Q">>),
   Str(<<"d", "a", "t", "a", ":", "i", "/", "p", ";", "b", "a", "s", "e", "6", "4", ",", "Q", "Q">>)}

TenCents == Str(<<"0", ".", "1", "0">>)
NonObjectItem == [EmptyItem EXCEPT !.obj = FALSE]

\* Lines of 0.10 a case: two cases, one case, and an element that is no object.
HandlerItems ==
  {[EmptyItem EXCEPT !.netCost = TenCents, !.qtyOrdered = Num(2000)],
   [EmptyItem EXCEPT !.netCost = Num(100), !.qtyOrdered = Str(<<"1">>)],
   NonObjectItem}

BonBright ==
  Str(<<"B", "o", "n", " ", "B", "r", "i", "g", "h", "t", " ", "D", "i", "s", "t", "r", ".">>)

\* Printed totals: absent, null, unparseable, 0.20, 0.15, "0.246", 1.00.
PrintedTotalsA ==
  {Undef, JNull, Str(<<"N", "/", "A">>), Num(200), Num(150),
   Str(<<"0", ".", "2", "4", "6">>), Num(1000)}
PrintedTotalsB == {Undef, Num(200), Num(150), Num(1000)}

\* A warnings field: absent, an array, a string.
WarningsA == {Undef, Arr(<<"NOTE">>), Str(<<"n", "o">>)}
WarningsB == {Undef, Str(<<"n", "o">>)}

Objects(vendors, totals, warningsSet) ==
  {[top |-> "obj", vendorName |-> v, invoiceDate |-> Undef, invoiceTotal |-> p,
    items |-> [isArray |-> TRUE, elems |-> e], warnings |-> w] :
     v \in vendors, p \in totals, e \in SeqsUpTo(HandlerItems, MaxItems), w \in warningsSet}

\* Top-level values that are no object with fields: null and an array.
NonObjects == {[EmptyParsed EXCEPT !.top = k] : k \in {"null", "arr"}}

ValuesA == Objects({Undef, BonBright}, PrintedTotalsA, WarningsA) \cup NonObjects
ValuesB == Objects({BonBright}, PrintedTotalsB, WarningsB) \cup NonObjects

Failures ==
  {[http |-> "rejected", text |-> "empty", value |-> EmptyParsed],
   [http |-> "error", text |-> "empty", value |-> EmptyParsed],
   [http |-> "ok", text |-> "empty", value |-> EmptyParsed],
   [http |-> "ok", text |-> "invalid", value |-> EmptyParsed]}

Replies(values) == Failures \cup {[http |-> "ok", text |-> "json", value |-> v] : v \in values}

NoReply == [http |-> "none", text |-> "none", value |-> EmptyParsed]

(***************************************************************************)
(* Single lines for the normalization: quantities, costs and amounts for   *)
(* the quantity corrector; descriptions, raw lines and unit counts for the *)
(* units-per-case rules; short lines that sum to fractions of a cent.      *)
(***************************************************************************)
Costs ==
  {TenCents, Str(<<"0", ".", "0", "0", "4">>), Str(<<"-", "0", ".", "1", "0">>), Num(10000), Undef}
Quantities == {Num(0), Str(<<"0">>), Str(<<"O">>), Num(2000), Str(<<"-", "1">>), Undef}
Amounts ==
  {Undef, Num(0), Num(4), Str(<<"0", ".", "0", "0", "0", "0", "0", "0", "1">>),
   Num(300), Str(<<"0", ".", "2">>), Num(9900), Num(-300), Num(100000)}

QtyItems ==
  {[EmptyItem EXCEPT !.netCost = c, !.qtyOrdered = q, !.lineAmount = a] :
     c \in Costs, q \in Quantities, a \in Amounts}

Descriptions ==
  {Undef,
   Str(<<"2", "/", "1", "5", " ", "p", "k">>),
   Str(<<"c", "o", "l", "a", " ", "6", "p", "k">>),
   Str(<<"1", "2", "P", "K">>),
   Str(<<"3", "0", "0", " ", "/", " ", "2">>),
   Str(<<"0", "/", "5">>)}
RawLines ==
  {Undef,
   Str(<<"C", "S", "0", "0", "0", "0", "2", "4">>),
   Str(<<"x", " ", "C", "S", "0", "0", "0", "0", "0", "1", " ", "+", "0", "0", "0", "2">>),
   Str(<<"C", "S", "0", "0", "0", "3", "0", "0">>),
   Str(<<"C", "S", "0", "0", "0", "0", "0", "0">>)}
UnitCounts == {Undef, Num(12000), Num(201000), Str(<<"-", "3">>)}

UnitsItems ==
  {[EmptyItem EXCEPT !.netCost = TenCents, !.qtyOrdered = Num(1000),
                     !.description = d, !.rawLine = r, !.unitsPerCase = u] :
     d \in Descriptions, r \in RawLines, u \in UnitCounts}

SumItems ==
  {[EmptyItem EXCEPT !.netCost = Str(<<"0", ".", "0", "0", "4">>), !.qtyOrdered = Num(1000)],
   [EmptyItem EXCEPT !.netCost = TenCents, !.qtyOrdered = Num(2000)],
   [EmptyItem EXCEPT !.netCost = TenCents, !.qtyOrdered = Num(1000),
                     !.rawLine = Str(<<"C", "S", "0", "0", "0", "0", "2", "4">>)],
   NonObjectItem}

DefaultVendor == Str(<<"D", "e", "f", "a", "u", "l", "t">>)

LineValues ==
  {[top |-> "obj", vendorName |-> v, invoiceDate |-> Undef, invoiceTotal |-> Undef,
    items |-> [isArray |-> TRUE, elems |-> e], warnings |-> Undef] :
     v \in {Undef, BonBright, DefaultVendor, Str(<<"B", "o", "n">>)},
     e \in {<<i>> : i \in QtyItems \cup UnitsItems} \cup SeqsUpTo(SumItems, MaxItems)}

(***************************************************************************)
(* One request to /api/extract.                                            *)
(*   pc        "idle", "passA" (suspended in the initial collaborator      *)
(*             call), "passB" (suspended in the corrective call), "done"   *)
(*   image     the request's base64Image                                   *)
(*   requests  the requests issued to the collaborator, in order           *)
(*   replyA, replyB  the collaborator's replies                            *)
(*   parsedA   the first-pass result                                       *)
(*   response  what was sent to the caller                                 *)
(***************************************************************************)
VARIABLES pc, image, requests, replyA, replyB, parsedA, response

vars == <<pc, image, requests, replyA, replyB, parsedA, response>>

Init ==
  /\ pc = "idle"
  /\ image = Undef
  /\ requests = <<>>
  /\ replyA = NoReply
  /\ replyB = NoReply
  /\ parsedA = NoParsed
  /\ response = NoResponse

\* Lines 450-464: the request arrives; without usable image data it is
\* rejected, otherwise the initial extraction is requested.
Receive(img) ==
  /\ pc = "idle"
  /\ image' = img
  /\ IF ~Truthy(img)
     THEN /\ response' = errorJson(400, "No image provided")
          /\ pc' = "done"
          /\ UNCHANGED requests
     ELSE IF parseBase64DataUrl(img).base64 = <<>>
     THEN /\ response' = errorJson(400, "Invalid image or PDF data")
          /\ pc' = "done"
          /\ UNCHANGED requests
     ELSE /\ requests' = Append(requests, InitialRequest)
          /\ pc' = "passA"
          /\ UNCHANGED response
  /\ UNCHANGED <<replyA, replyB, parsedA>>

\* The handler resumes after the initial call with the outcome r.
ResumeFirst(r) ==
  /\ parsedA' = r.parsedA
  /\ IF r.retry
     THEN /\ requests' = Append(requests, r.request)
          /\ pc' = "passB"
          /\ UNCHANGED response
     ELSE /\ response' = r.response
          /\ pc' = "done"
          /\ UNCHANGED requests

\* Lines 464-501: the initial call settles; the handler returns or issues the
\* corrective request.
PassA(reply) ==
  /\ pc = "passA"
  /\ replyA' = reply
  /\ ResumeFirst(firstPass(reply))
  /\ UNCHANGED <<image, replyB>>

\* The handler resumes after the corrective call with the outcome r.
ResumeSecond(r) ==
  IF r.again
  THEN /\ requests' = Append(requests, requests[Len(requests)])
       /\ pc' = "passB"
       /\ UNCHANGED response
  ELSE /\ response' = r.response
       /\ pc' = "done"
       /\ UNCHANGED requests

\* Lines 497-530: the corrective call settles; the handler returns.
PassB(reply) ==
  /\ pc = "passB"
  /\ replyB' = reply
  /\ ResumeSecond(secondPass(reply, parsedA))
  /\ UNCHANGED <<image, replyA, parsedA>>

Next ==
  \/ \E img \in Requests : Receive(img)
  \/ \E reply \in Replies(ValuesA) : PassA(reply)
  \/ \E reply \in Replies(ValuesB) : PassB(reply)

Spec == Init /\ [][Next]_vars

\* The same handler, the collaborator answering the initial call with
\* invoices that carry the lines above and no printed total.
NextLines ==
  \/ \E img \in Requests : Receive(img)
  \/ \E reply \in {[http |-> "ok", text |-> "json", value |-> v] : v \in LineValues} :
       PassA(reply)

SpecLines == Init /\ [][NextLines]_vars

(***************************************************************************)
(* Several requests in flight.  Every invocation of the handler has its    *)
(* own req, res and locals (base64Image, rawA, parsedA, rawB, parsedB,     *)
(* lines 449-531); an invocation runs until it awaits a collaborator call  *)
(* and another invocation may run while it is suspended.  Each variable    *)
(* holds one value per invocation.  The module-level bindings (lines       *)
(* 31-61, vendorRules 189-247) are assigned at load time only: no          *)
(* statement of the handler or of normalizeParsed assigns to them, so they *)
(* stay the constant definitions above.                                    *)
(***************************************************************************)
MaxRequests == 2

\* Request bodies: no image, and a data URL.
InterleavedImages == {img \in Requests : ~Truthy(img) \/ Len(img.s) > 3}

\* First responses of one vendor without a warnings field, with no line or
\* one line of two cases at 0.10: printed total absent, 0.20 and 1.00.
InterleavedA ==
  {v \in ValuesA :
     /\ v.top = "obj" /\ v.vendorName = BonBright /\ v.warnings = Undef
     /\ v.invoiceTotal \in {Undef, Num(200), Num(1000)}
     /\ Len(v.items.elems) <= 1
     /\ \A i \in 1..Len(v.items.elems) : v.items.elems[i].qtyOrdered = Num(2000)}

\* Second responses: one line of two cases, printed total 0.20 and 1.00.
InterleavedB ==
  {v \in InterleavedA : v.invoiceTotal # Undef /\ Len(v.items.elems) = 1}

\* A variant in which parsedA is one binding shared by every invocation (a
\* module-level variable): a normalized first pass is seen by all of them.
assignShared(locals, r, v) ==
  [s \in DOMAIN locals |-> IF s = r \/ v # NoParsed THEN v ELSE locals[s]]

\* `let parsedA = ...` (line 465): the assignment binds the local of the
\* invocation r only.
assignLocal(locals, r, v) == [locals EXCEPT ![r] = v]

InitInterleaved ==
  /\ pc = [r \in 1..MaxRequests |-> "idle"]
  /\ image = [r \in 1..MaxRequests |-> Undef]
  /\ requests = [r \in 1..MaxRequests |-> <<>>]
  /\ replyA = [r \in 1..MaxRequests |-> NoReply]
  /\ replyB = [r \in 1..MaxRequests |-> NoReply]
  /\ parsedA = [r \in 1..MaxRequests |-> NoParsed]
  /\ response = [r \in 1..MaxRequests |-> NoResponse]

\* Lines 450-464 of the invocation r.
ReceiveOf(r, img) ==
  /\ pc[r] = "idle"
  /\ image' = [image EXCEPT ![r] = img]
  /\ IF ~Truthy(img)
     THEN /\ response' = [response EXCEPT ![r] = errorJson(400, "No image provided")]
          /\ pc' = [pc EXCEPT ![r] = "done"]
          /\ UNCHANGED requests
     ELSE IF parseBase64DataUrl(img).base64 = <<>>
     THEN /\ response' = [response EXCEPT ![r] = errorJson(400, "Invalid image or PDF data")]
          /\ pc' = [pc EXCEPT ![r] = "done"]
          /\ UNCHANGED requests
     ELSE /\ requests' = [requests EXCEPT ![r] = Append(requests[r], InitialRequest)]
          /\ pc' = [pc EXCEPT ![r] = "passA"]
          /\ UNCHANGED response
  /\ UNCHANGED <<replyA, replyB, parsedA>>

\* The invocation r resumes after its initial call with the outcome o.
ResumeFirstOf(r, o) ==
  /\ parsedA' = assignLocal(parsedA, r, o.parsedA)
  /\ IF o.retry
     THEN /\ requests' = [requests EXCEPT ![r] = Append(requests[r], o.request)]
          /\ pc' = [pc EXCEPT ![r] = "passB"]
          /\ UNCHANGED response
     ELSE /\ response' = [response EXCEPT ![r] = o.response]
          /\ pc' = [pc EXCEPT ![r] = "done"]
          /\ UNCHANGED requests

\* Lines 464-501 of the invocation r.
PassAOf(r, reply) ==
  /\ pc[r] = "passA"
  /\ replyA' = [replyA EXCEPT ![r] = reply]
  /\ ResumeFirstOf(r, firstPass(reply))
  /\ UNCHANGED <<image, replyB>>

\* Lines 497-530 of the invocation r.
PassBOf(r, reply) ==
  /\ pc[r] = "passB"
  /\ replyB' = [replyB EXCEPT ![r] = reply]
  /\ response' = [response EXCEPT ![r] = secondPass(reply, parsedA[r]).response]
  /\ pc' = [pc EXCEPT ![r] = "done"]
  /\ UNCHANGED <<image, requests, replyA, parsedA>>

NextInterleaved ==
  \/ \E r \in 1..MaxRequests, img \in InterleavedImages : ReceiveOf(r, img)
  \/ \E r \in 1..MaxRequests, reply \in Replies(InterleavedA) : PassAOf(r, reply)
  \/ \E r \in 1..MaxRequests, reply \in Replies(InterleavedB) : PassBOf(r, reply)

SpecInterleaved == InitInterleaved /\ [][NextInterleaved]_vars

(***************************************************************************)
(* Properties.                                                             *)
(***************************************************************************)
\* The corrective requests issued so far.
Corrective == {i \in 1..Len(requests) : requests[i].prompt = "correction"}

\* The initial call returned a parseable JSON value.
FirstParsed == replyA # NoReply /\ ~callGeminiForInvoice(replyA).threw

\* The corrective call returned a parseable JSON value.
SecondParsed == replyB # NoReply /\ ~callGeminiForInvoice(replyB).threw

\* The normalized and reconciled second response.
SecondReconciled == reconcile(normalizeParsed(replyB.value))

\* A normal result whose named fields reach the caller.
NormalResult == response.status = 200 /\ response.body.top = "obj"

\* C1: for every sequence of collaborator replies the handler issues at most
\* one corrective request, and once the second pass has settled (match,
\* mismatch or failure) the handler has returned: no collaborator call is
\* pending and none is made again.
C1_AtMostOneCorrective ==
  /\ Cardinality(Corrective) <= 1
  /\ Len(requests) <= 2
  /\ replyB # NoReply => pc = "done" /\ response # NoResponse

\* The second pass settled on a mismatch and the handler returned it.
C1_Witness ==
  /\ pc = "done" /\ Cardinality(Corrective) = 1
  /\ SecondParsed /\ ~SecondReconciled.match
  /\ NormalResult /\ ~response.body.totalMatches

\* C2 (as claimed): a first pass whose printed total is present and within
\* 0.05 of grandTotal issues no corrective request and returns
\* totalMatches = true.
C2_WithinToleranceMatches ==
  (/\ FirstParsed
   /\ IsNumber(parsedA.invoiceTotal)
   /\ Abs(parsedA.grandTotal - parsedA.invoiceTotal) <= 50)
  => /\ Corrective = {}
     /\ pc = "done" /\ NormalResult /\ response.body.totalMatches

\* The corrective pass failed: the call threw, or the push on the second
\* result's warnings threw.
SecondFailed ==
  /\ replyB # NoReply
  /\ \/ callGeminiForInvoice(replyB).threw
     \/ ~SecondReconciled.match /\ SecondReconciled.parsed.warnings.t # "arr"

\* C3 (as claimed): when the first pass mismatches and the corrective pass
\* fails, the response is a normal result equal to the first pass (same
\* vendor, items, grandTotal, invoiceTotal, totalMatches = false) with
\* TOTAL_MISMATCH_NEEDS_REVIEW and RETRY_FAILED added to its warnings.
C3_RetryFailureFallsBack ==
  (pc = "done" /\ SecondFailed)
  => /\ NormalResult
     /\ response.body.totalMatches = FALSE
     /\ response.body.items = parsedA.items
     /\ response.body.grandTotal = parsedA.grandTotal
     /\ response.body.invoiceTotal = parsedA.invoiceTotal
     /\ response.body.vendorKey = parsedA.vendorKey
     /\ response.body.warnings.t = "arr"
     /\ response.body.warnings.s
          = parsedA.warnings.s \o <<"TOTAL_MISMATCH_NEEDS_REVIEW", "RETRY_FAILED">>

NoPrintedTotal ==
  FirstParsed /\ ~IsNumber(normalizeParsed(replyA.value).invoiceTotal)

\* C5 (as claimed): a first pass without a printed total is returned with
\* totalMatches = false and the INVOICE_TOTAL_MISSING warning, and no
\* corrective request is issued.
C5_MissingTotalReturned ==
  NoPrintedTotal
  => /\ Corrective = {}
     /\ pc = "done" /\ NormalResult
     /\ response.body.totalMatches = FALSE
     /\ response.body.warnings.t = "arr"
     /\ \E i \in 1..Len(response.body.warnings.s) :
          response.body.warnings.s[i] = "INVOICE_TOTAL_MISSING"

\* The raw line items of the first response and the lines returned for them.
RawItems == replyA.value.items.elems
Lines == response.body.items

\* A normal result for the first response, one returned line per raw item.
LinesReturned ==
  /\ pc = "done" /\ FirstParsed /\ NormalResult
  /\ Len(Lines) = Len(RawItems)

\* The extracted quantity of a raw item is exactly 0: the number 0 or "0".
ExtractedZero(item) == item.obj /\ item.qtyOrdered \in {Num(0), Str(<<"0">>)}

\* C6 (as claimed): a line whose extracted quantity is exactly 0 has
\* qtyOrdered = 0, whatever its netCost and lineAmount are.
C6_ZeroAlwaysPreserved ==
  LinesReturned =>
    \A i \in 1..Len(Lines) : ExtractedZero(RawItems[i]) => Lines[i].qtyOrdered = 0

\* The value the selected rule set derives for a line before it is validated:
\* the sanitized unitsPerCase field under DEFAULT; otherwise the X of an X/Y
\* pack pattern, else the CS value when it exceeds 1, else a fixed pack count.
DerivedUnits(vendorKey, item) ==
  IF vendorKey = KeyDefault THEN safeIntPreserveZero(item.unitsPerCase, 0)
  ELSE IF slashMatch(upperDescription(item)) # Null THEN slashMatch(upperDescription(item))
  ELSE IF orOne(extractMasterCase(Str(rawLineString(item)))) > 1
  THEN orOne(extractMasterCase(Str(rawLineString(item))))
  ELSE 1

\* C7: every returned line has an integer unitsPerCase with
\* 0 < unitsPerCase <= 200 under every rule set, and a derived value that is
\* zero, negative, above 200 or not a number resolves to exactly 1 while the
\* line is kept.
C7_UnitsPerCaseInRange ==
  LinesReturned =>
    \A i \in 1..Len(Lines) :
      /\ Lines[i].unitsPerCase \in 1..200
      /\ RawItems[i].obj /\ DerivedUnits(response.body.vendorKey, RawItems[i]) \notin 1..200
           => Lines[i].unitsPerCase = 1

\* A vendor-specific rule set derives 300 from the description and the line
\* is returned with unitsPerCase = 1.
C7_Witness ==
  /\ LinesReturned
  /\ response.body.vendorKey = KeyBonBright
  /\ \E i \in 1..Len(Lines) :
       /\ RawItems[i].obj
       /\ DerivedUnits(KeyBonBright, RawItems[i]) = 300
       /\ Lines[i].unitsPerCase = 1

\* The sum of the lineTotal values of the lines.
RECURSIVE SumLineTotals(_)
SumLineTotals(lines) ==
  IF Len(lines) = 0 THEN 0
  ELSE SumLineTotals(SubSeq(lines, 1, Len(lines) - 1)) + lines[Len(lines)].lineTotal

\* C8 (as claimed): grandTotal equals round2 of the sum of the lineTotal
\* values returned for the lines, each round2(netCost x qtyOrdered).
C8_GrandTotalSumsLineTotals ==
  LinesReturned => response.body.grandTotal = round2(SumLineTotals(Lines))

\* C9 (as claimed): once the initial call has returned a parseable JSON value
\* the request never ends in an error response.
C9_ParseableNeverErrors ==
  (pc = "done" /\ FirstParsed) => response.status = 200

\* C10 (as claimed): a failed initial call ends the request with an error
\* response and no corrective request, and a failed corrective call never
\* ends it with an error response.
C10_FailureFatalOnlyOnFirstPass ==
  /\ (replyA # NoReply /\ callGeminiForInvoice(replyA).threw)
       => pc = "done" /\ response.status = 500 /\ Corrective = {}
  /\ (pc = "done" /\ replyB # NoReply /\ callGeminiForInvoice(replyB).threw)
       => response.status = 200

\* C11 (as claimed): every returned line has netCost >= 0 and an integer
\* qtyOrdered >= 0, also for raw costs and quantities that carry a minus sign
\* and for lines without a lineAmount.
C11_CostAndQuantityNonNegative ==
  LinesReturned =>
    \A i \in 1..Len(Lines) :
      /\ Lines[i].netCost >= 0
      /\ Lines[i].qtyOrdered \in Nat

\* The amount x is present and below 0.005 in absolute value.
NearZero(x) == x = Tiny \/ (IsNumber(x) /\ Abs(x) < 5)

\* C12 (as claimed): whenever the line amount handed to the Quantity
\* Corrector is present and below 0.005 in absolute value, the corrected
\* quantity is exactly 0, whatever the extracted quantity and the net cost.
C12_NearZeroAmountGivesZero ==
  LinesReturned =>
    \A i \in 1..Len(Lines) :
      (RawItems[i].obj /\ NearZero(normalizeLineAmount(RawItems[i])))
        => Lines[i].qtyOrdered = 0

\* The quantity the claim of C13 gives for an extracted quantity, a positive
\* cost and an amount of at least 0.005: the rounded quotient when it is in
\* [0, 9999] and its extended amount is within max(0.05, 1% of the stated
\* amount) of the amount, else the extracted quantity.
ClaimedQty(qtyOrdered, cost, amt) ==
  IF /\ RoundDiv(amt, cost) >= 0 /\ RoundDiv(amt, cost) <= 9999
     /\ 100 * Abs(RoundDiv(amt, cost) * cost - amt) <= Max(5000, Abs(amt))
  THEN RoundDiv(amt, cost)
  ELSE qtyOrdered

\* C13 (as claimed): for a line amount of at least 0.005 in absolute value and
\* a positive net cost, the corrected quantity is inferred =
\* round(lineAmount / netCost) exactly when inferred is in [0, 9999] and
\* |inferred x netCost - lineAmount| <= max(0.05, 1% of the stated line
\* amount); otherwise it is the extracted quantity, unchanged.
C13_InferredWithinStatedTolerance ==
  LinesReturned =>
    \A i \in 1..Len(Lines) :
      (/\ RawItems[i].obj
       /\ IsNumber(normalizeLineAmount(RawItems[i]))
       /\ normalizeLineAmount(RawItems[i]) # Tiny
       /\ Abs(normalizeLineAmount(RawItems[i])) >= 5
       /\ normalizeNetCost(RawItems[i]) > 0)
      => Lines[i].qtyOrdered
           = ClaimedQty(normalizeQty(RawItems[i]), normalizeNetCost(RawItems[i]),
                        normalizeLineAmount(RawItems[i]))

\* The name of the rule set the lookup order gives for a vendor key: the
\* entry of that key, else the beverage base.
ExpectedRuleSet(vendorKey) ==
  IF vendorKey = KeyBonBright THEN "BONBRIGHTDISTR"
  ELSE IF vendorKey = KeyDefault THEN "DEFAULT"
  ELSE "BEVERAGE_BASE"

\* C14: the rule set of an invoice is the registry entry of its vendorKey if
\* there is one, otherwise the beverage base (the global default only after
\* that); a key that is not in the registry never gets a vendor's specific
\* rule set, and every line of the invoice is resolved by the units rule of
\* the selected set.
C14_RuleSetLookupOrder ==
  LinesReturned =>
    /\ selectRules(response.body.vendorKey).name = ExpectedRuleSet(response.body.vendorKey)
    /\ response.body.vendorKey \notin {KeyBonBright, KeyDefault}
         => selectRules(response.body.vendorKey) = vendorRules[KeyBeverageBase]
    /\ \A i \in 1..Len(Lines) :
         RawItems[i].obj =>
           Lines[i].unitsPerCase
             = IF response.body.vendorKey = KeyDefault
               THEN DefaultUnitsPerCase(RawItems[i])
               ELSE BeverageUnitsPerCase(RawItems[i])

\* An invoice of the vendor "Bon", whose key BON is not in the registry, with
\* a line that the beverage base and the global default resolve differently.
C14_Witness ==
  /\ LinesReturned
  /\ response.body.vendorKey = <<"B", "O", "N">>
  /\ \E i \in 1..Len(Lines) :
       /\ RawItems[i].obj
       /\ DefaultUnitsPerCase(RawItems[i]) # BeverageUnitsPerCase(RawItems[i])
       /\ Lines[i].unitsPerCase = BeverageUnitsPerCase(RawItems[i])

\* C16 (as claimed): when the corrective pass succeeds and its total still
\* does not match, the second-pass result is returned as a normal response
\* with totalMatches = false and the warning TOTAL_MISMATCH_NEEDS_REVIEW, and
\* exactly one corrective request has been issued.
C16_MismatchingRetryIsReturned ==
  (pc = "done" /\ SecondParsed /\ ~SecondReconciled.match)
  => /\ Cardinality(Corrective) = 1
     /\ NormalResult
     /\ response.body.totalMatches = FALSE
     /\ response.body.vendorKey = normalizeParsed(replyB.value).vendorKey
     /\ response.body.items = normalizeParsed(replyB.value).items
     /\ response.body.grandTotal = normalizeParsed(replyB.value).grandTotal
     /\ response.body.warnings.t = "arr"
     /\ \E i \in 1..Len(response.body.warnings.s) :
          response.body.warnings.s[i] = "TOTAL_MISMATCH_NEEDS_REVIEW"

\* A value in (0, 200], or 1 in its place.
InRangeOrOne(u) == IF u \in 1..200 THEN u ELSE 1

\* The ordered procedure on the upper-cased description desc and the
\* case-code cs: the X of an X/Y fraction; else 4 for 6PK and 2 for 12PK
\* while the case-code is 1; else the case-code when it exceeds 1; else 1.
ProcedureUnits(desc, cs) ==
  IF slashMatch(desc) # Null THEN InRangeOrOne(slashMatch(desc))
  ELSE IF includes(desc, <<"6", "P", "K">>) /\ cs = 1 THEN 4
  ELSE IF includes(desc, <<"1", "2", "P", "K">>) /\ cs = 1 THEN 2
  ELSE IF cs # Null /\ cs > 1 THEN InRangeOrOne(cs)
  ELSE 1

\* C17 (as claimed): under every rule set, unitsPerCase is the result of the
\* ordered procedure on the line's description and extracted case-code.
C17_ProcedureUnderEveryRuleSet ==
  LinesReturned =>
    \A i \in 1..Len(Lines) :
      RawItems[i].obj =>
        Lines[i].unitsPerCase
          = ProcedureUnits(upperDescription(RawItems[i]),
                           extractMasterCase(Str(rawLineString(RawItems[i]))))

\* C17 (amended): under the beverage base and the sets copied from it (every
\* vendorKey but DEFAULT), unitsPerCase is the result of the ordered
\* procedure, 6PK tested before 12PK and an absent case-code counting as 1;
\* under the DEFAULT set it is the line's sanitized unitsPerCase field; in
\* both cases a value that is not in (0, 200] is replaced by 1.
C17_ProcedureUnderBeverageSets ==
  LinesReturned =>
    \A i \in 1..Len(Lines) :
      RawItems[i].obj =>
        Lines[i].unitsPerCase
          = IF response.body.vendorKey = KeyDefault
            THEN InRangeOrOne(safeIntPreserveZero(RawItems[i].unitsPerCase, 0))
            ELSE ProcedureUnits(upperDescription(RawItems[i]),
                                orOne(extractMasterCase(Str(rawLineString(RawItems[i])))))

\* A line of a beverage vendor with an X/Y fraction and a case-code above 1 is
\* resolved to X.
C17_Witness ==
  /\ LinesReturned
  /\ response.body.vendorKey = KeyBonBright
  /\ \E i \in 1..Len(Lines) :
       /\ RawItems[i].obj
       /\ slashMatch(upperDescription(RawItems[i])) = 2
       /\ extractMasterCase(Str(rawLineString(RawItems[i]))) = 24
       /\ Lines[i].unitsPerCase = 2

\* C18 (as claimed): in every normal result, the fallback after a failed
\* retry included, totalMatches is true exactly when that result's
\* invoiceTotal is present and round2(grandTotal) and round2(invoiceTotal)
\* differ by at most 0.05; a second-pass result is compared with the printed
\* total of the second pass.
C18_TotalMatchesIffWithinTolerance ==
  (pc = "done" /\ NormalResult) =>
    (response.body.totalMatches
       <=> /\ IsNumber(response.body.invoiceTotal)
           /\ Abs(round2(response.body.grandTotal)
                    - round2(response.body.invoiceTotal)) <= 50)

\* The sanitized net cost of a raw item; an item that is no object is
\* normalized as an empty object.
SanitizedNetCost(item) == IF item.obj THEN normalizeNetCost(item) ELSE 0

\* The returned line carries the warning code.
HasWarning(line, code) == \E k \in 1..Len(line.warnings) : line.warnings[k] = code

ServedAlone(img, a, b) ==
  IF ~Truthy(img) THEN errorJson(400, "No image provided")
  ELSE IF parseBase64DataUrl(img).base64 = <<>>
  THEN errorJson(400, "Invalid image or PDF data")
  ELSE IF ~firstPass(a).retry THEN firstPass(a).response
  ELSE secondPass(b, firstPass(a).parsedA).response

\* Everything the model holds for the invocation r.
StateOf(r) == <<pc[r], image[r], requests[r], replyA[r], replyB[r], parsedA[r], response[r]>>

\* Every finished request got the response it would get served alone.
AnsweredAsAlone ==
  \A r \in 1..MaxRequests :
    pc[r] = "done" => response[r] = ServedAlone(image[r], replyA[r], replyB[r])

\* A step of one invocation leaves what belongs to the others as it was.
StepOfOne ==
  \E r \in 1..MaxRequests :
    \A s \in (1..MaxRequests) \ {r} : StateOf(s)' = StateOf(s)

\* C15: with requests interleaved at their collaborator calls, the response
\* of each request is the one determined by its own body and its own
\* collaborator replies alone, and no step of one request changes what
\* belongs to another request.
C15_RequestsIndependent == []AnsweredAsAlone /\ [][StepOfOne]_vars

\* One request has returned its second pass while another, whose first pass
\* gave a different result, is suspended in its corrective call.
C15_Witness ==
  /\ \E r \in 1..MaxRequests, s \in 1..MaxRequests :
       /\ pc[r] = "done" /\ Len(requests[r]) = 2 /\ response[r].status = 200
       /\ pc[s] = "passB"
       /\ parsedA[r] # parsedA[s]

====
